---- MODULE Spec2Model ----
(***************************************************************************)
(* Model of the registration and sign-in workflows of mpl-backend:         *)
(*   AuthService.signUp        (src/src/services/authService.ts 179-280)   *)
(*   AuthService.signIn        (src/src/services/authService.ts 429-540)   *)
(*   ValidationService         (src/unnamed/part_007 279-444)              *)
(* together with the two external collaborators the workflow talks to: the *)
(* identity provider (Firebase Admin auth) and the users table of the      *)
(* relational store.  Strings that the code inspects character by          *)
(* character (trim, regular expressions, length) are sequences of          *)
(* one-character strings; strings that are only compared are TLA+ strings. *)
(* Skill levels are integers in hundredths (3.0 is 300).                   *)
(***************************************************************************)
EXTENDS Integers, Sequences, FiniteSets, TLC

\* ------------------------------------------------------------------
\* Bounds of the model
\* ------------------------------------------------------------------
\* number of signUp attempts that may run (concurrently or one after another)
NumAttempts == 2

Attempts == 1..NumAttempts

\* number of signIn calls that may run (concurrently or one after another)
NumSignIns == 2

\* the HTTP requests that pass the middleware
NumRequests == 2

Requests == 1..NumRequests

SignIns == 1..NumSignIns

\* ------------------------------------------------------------------
\* Character-level helpers (JavaScript string operations)
\* ------------------------------------------------------------------
LowerChars == {"a", "b", "c", "d", "e", "f", "j", "n", "o", "m"}
UpperChars == {"A", "J", "D"}
DigitChars == {"0", "1", "2", "3", "4", "5", "6", "7", "8", "9"}
SpaceChars == {" "}

Range(s) == {s[i] : i \in DOMAIN s}

\* String.prototype.trim
RECURSIVE TrimLeft(_)
TrimLeft(s) ==
  IF s = << >> THEN << >>
  ELSE IF Head(s) \in SpaceChars THEN TrimLeft(Tail(s)) ELSE s

RECURSIVE TrimRight(_)
TrimRight(s) ==
  IF s = << >> THEN << >>
  ELSE IF s[Len(s)] \in SpaceChars THEN TrimRight(SubSeq(s, 1, Len(s) - 1)) ELSE s

Trim(s) == TrimRight(TrimLeft(s))

\* the character class [^\s@]
NotSpaceAt(c) == c \notin SpaceChars /\ c # "@"

AllNotSpaceAt(s, from, to) == \A k \in from..to : NotSpaceAt(s[k])

\* /^[^\s@]+@[^\s@]+\.[^\s@]+$/.test(s)
emailRegex(s) ==
  \E i \in 1..Len(s) : \E j \in 1..Len(s) :
    /\ s[i] = "@"
    /\ s[j] = "."
    /\ i > 1
    /\ j > i + 1
    /\ j < Len(s)
    /\ AllNotSpaceAt(s, 1, i - 1)
    /\ AllNotSpaceAt(s, i + 1, j - 1)
    /\ AllNotSpaceAt(s, j + 1, Len(s))

\* /(?=.*[a-z])(?=.*[A-Z])(?=.*\d)/.test(s)
passwordRegex(s) ==
  /\ \E i \in DOMAIN s : s[i] \in LowerChars
  /\ \E i \in DOMAIN s : s[i] \in UpperChars
  /\ \E i \in DOMAIN s : s[i] \in DigitChars

\* /^\d{5}(-\d{4})?$/.test(zipCode)
validateZipCodeFormat(zipCode) ==
  \/ /\ Len(zipCode) = 5
     /\ \A k \in 1..5 : zipCode[k] \in DigitChars
  \/ /\ Len(zipCode) = 10
     /\ \A k \in 1..5 : zipCode[k] \in DigitChars
     /\ zipCode[6] = "-"
     /\ \A k \in 7..10 : zipCode[k] \in DigitChars

\* String.prototype.toLowerCase on the sport tokens a request can carry
toLowerCase(sport) ==
  CASE sport = "Tennis" -> "tennis"
    [] sport = "TENNIS" -> "tennis"
    [] sport = "Pickleball" -> "pickleball"
    [] sport = "PICKLEBALL" -> "pickleball"
    [] sport = "Golf" -> "golf"
    [] OTHER -> sport

\* ------------------------------------------------------------------
\* ValidationService.validateRegistrationData: the field checks
\* ------------------------------------------------------------------
NoError == ""

fullNameError(formData) ==
  IF Trim(formData.fullName) = << >> THEN "Full name is required"
  ELSE IF Len(Trim(formData.fullName)) < 2 THEN "Full name must be at least 2 characters"
  ELSE NoError

emailError(formData) ==
  IF formData.email = << >> THEN "Email is required"
  ELSE IF ~emailRegex(formData.email) THEN "Please enter a valid email address"
  ELSE NoError

confirmEmailError(formData) ==
  IF formData.confirmEmail = << >> THEN "Please confirm your email"
  ELSE IF formData.email # formData.confirmEmail THEN "Email addresses do not match"
  ELSE NoError

passwordError(formData) ==
  IF formData.password = << >> THEN "Password is required"
  ELSE IF Len(formData.password) < 6 THEN "Password must be at least 6 characters"
  ELSE IF ~passwordRegex(formData.password)
    THEN "Password must contain at least one uppercase letter, one lowercase letter, and one number"
  ELSE NoError

confirmPasswordError(formData) ==
  IF formData.confirmPassword = << >> THEN "Please confirm your password"
  ELSE IF formData.password # formData.confirmPassword THEN "Passwords do not match"
  ELSE NoError

displayNameError(formData) ==
  IF formData.displayName = << >> THEN "Display name is required" ELSE NoError

validSports == {"tennis", "pickleball"}

invalidSports(preferredSports) ==
  SelectSeq(preferredSports, LAMBDA sport : toLowerCase(sport) \notin validSports)

preferredSportsError(formData) ==
  IF formData.preferredSports = << >> THEN "Please select at least one sport"
  ELSE IF Len(invalidSports(formData.preferredSports)) > 0
    THEN "Invalid sports selected. Only tennis and pickleball are allowed."
  ELSE NoError

\* variant: the range is checked, the 0.5 grid is not
skillLevelErrorRangeOnly(formData) ==
  IF formData.skillLevel < 100 \/ formData.skillLevel > 550
    THEN "Skill level must be between 1.0 and 5.5"
  ELSE NoError

skillLevelError(formData) ==
  IF formData.skillLevel < 100 \/ formData.skillLevel > 550
    THEN "Skill level must be between 1.0 and 5.5"
  ELSE IF formData.skillLevel % 50 # 0
    THEN "Skill level must be in increments of 0.5 (e.g., 1.0, 1.5, 2.0, etc.)"
  ELSE NoError

zipCodeError(formData) ==
  IF formData.zipCode = << >> THEN "ZIP code is required"
  ELSE IF ~validateZipCodeFormat(formData.zipCode) THEN "Please enter a valid ZIP code"
  ELSE NoError

FieldNames ==
  {"fullName", "email", "confirmEmail", "password", "confirmPassword",
   "displayName", "preferredSports", "skillLevel", "zipCode"}

fieldError(formData, field) ==
  CASE field = "fullName" -> fullNameError(formData)
    [] field = "email" -> emailError(formData)
    [] field = "confirmEmail" -> confirmEmailError(formData)
    [] field = "password" -> passwordError(formData)
    [] field = "confirmPassword" -> confirmPasswordError(formData)
    [] field = "displayName" -> displayNameError(formData)
    [] field = "preferredSports" -> preferredSportsError(formData)
    [] field = "skillLevel" -> skillLevelError(formData)
    [] field = "zipCode" -> zipCodeError(formData)

\* the fields in the order validateRegistrationData checks them
FieldOrder ==
  <<"fullName", "email", "confirmEmail", "password", "confirmPassword",
    "displayName", "preferredSports", "skillLevel", "zipCode">>

\* variant: validation stops at the first field that fails
validationErrorsFirstOnly(formData) ==
  LET failing == SelectSeq(FieldOrder, LAMBDA f : fieldError(formData, f) # NoError)
  IN [field \in (IF failing = << >> THEN {} ELSE {Head(failing)})
        |-> fieldError(formData, field)]

\* the errors object built by validateRegistrationData: one entry per failing field
validationErrorsOf(formData) ==
  [field \in {f \in FieldNames : fieldError(formData, f) # NoError}
     |-> fieldError(formData, field)]


\* variant: the early return is missing, every request counts as valid
structuralResultAlwaysValid(formData) ==
  [isValid |-> TRUE, errors |-> validationErrorsOf(formData), cityInfo |-> ""]

\* the ValidationResult of validateRegistrationData before the postal lookup:
\* the early return with the collected errors, or isValid with no errors
structuralResult(formData) ==
  IF DOMAIN validationErrorsOf(formData) # {}
    THEN [isValid |-> FALSE, errors |-> validationErrorsOf(formData), cityInfo |-> ""]
    ELSE [isValid |-> TRUE, errors |-> validationErrorsOf(formData), cityInfo |-> ""]

\* getCityFromZipCode issues the fetch only for a zipCode of length 5
lookupIssued(zipCode) == zipCode # << >> /\ Len(zipCode) = 5

\* responses of the postal service: a place (fullLocation), or a failure
LookupFound == {"New York, NY"}
LookupFailures == {"not_ok", "no_places", "network_error"}

\* cityInfo.fullLocation after the fetch returned `response` ("" is no cityInfo)
cityInfoOf(response) == IF response \in LookupFailures THEN "" ELSE response

\* variant: a lookup that fails makes the request invalid
resultAfterLookupFailing(formData, response) ==
  [isValid |-> response \notin LookupFailures,
   errors |-> [field \in {} |-> NoError],
   cityInfo |-> cityInfoOf(response)]

\* the ValidationResult of validateRegistrationData after the fetch returned
\* `response`: { isValid: true, errors: {}, cityInfo: cityInfo || undefined }
resultAfterLookup(formData, response) ==
  [isValid |-> TRUE,
   errors |-> [field \in {} |-> NoError],
   cityInfo |-> cityInfoOf(response)]

\* ValidationService.mapSportsToPreferredSport
mapSportsToPreferredSport(sports) ==
  IF "tennis" \in Range(sports) /\ "pickleball" \in Range(sports) THEN "both"
  ELSE IF "pickleball" \in Range(sports) THEN "pickleball"
  ELSE "tennis"

\* a JavaScript number, and a string holding a decimal number, in hundredths
JsNumber(v) == [t |-> "number", v |-> v]
JsString(v) == [t |-> "string", v |-> v]

\* userData: the CreateUserInput signUp prepares (fullLocation || '')
userDataOf(formData, fullLocation) ==
  [email |-> formData.email,
   name |-> formData.fullName,
   display_name |-> formData.displayName,
   skill_level |-> JsNumber(formData.skillLevel),
   preferred_sport |-> mapSportsToPreferredSport(formData.preferredSports),
   is_competitive |-> FALSE,
   city |-> fullLocation,
   zip_code |-> formData.zipCode,
   allow_direct_contact |-> FALSE]

\* ------------------------------------------------------------------
\* The users table
\* ------------------------------------------------------------------
\* the row the INSERT stores: the values given, skill_level as decimal(2,1),
\* role by its column default
rowOf(userData) ==
  [email |-> userData.email,
   name |-> userData.name,
   display_name |-> userData.display_name,
   skill_level |-> userData.skill_level.v,
   preferred_sport |-> userData.preferred_sport,
   is_competitive |-> userData.is_competitive,
   city |-> userData.city,
   zip_code |-> userData.zip_code,
   allow_direct_contact |-> userData.allow_direct_contact,
   role |-> "player"]

\* the row object a SELECT hands back: node-postgres delivers a decimal
\* column as a string, the other compared columns as they were stored
storedDataOf(row) ==
  [email |-> row.email,
   name |-> row.name,
   display_name |-> row.display_name,
   skill_level |-> JsString(row.skill_level),
   preferred_sport |-> row.preferred_sport,
   city |-> row.city,
   zip_code |-> row.zip_code,
   role |-> row.role]

\* JavaScript !value for the compared columns
falsy(field, value) ==
  CASE field \in {"email", "name", "display_name", "zip_code"} -> value = << >>
    [] field \in {"preferred_sport", "city"} -> value = ""
    [] field = "skill_level" -> value.t = "number" /\ value.v = 0

completenessFields ==
  {"email", "name", "display_name", "skill_level", "preferred_sport", "city", "zip_code"}

\* verifyDataCompleteness: the missingFields of a row that was found
missingFieldsOf(storedData, userData) ==
  {field \in completenessFields :
     falsy(field, storedData[field]) \/ storedData[field] # userData[field]}

\* ------------------------------------------------------------------
\* Errors of the collaborators and their mapping to user messages
\* ------------------------------------------------------------------
\* a store error: its SQLSTATE code and the words of its constraint name
DbError(code, constraint) == [code |-> code, constraint |-> constraint]

UniqueViolationEmail == DbError("23505", <<"users", "email", "key">>)
NotNullViolation == DbError("23502", << >>)
CheckViolationSkill == DbError("23514", <<"users", "skill_level", "check">>)
ConnectionException == DbError("08000", << >>)
DeadlockDetected == DbError("40P01", << >>)
CheckViolationSport == DbError("23514", <<"users", "preferred_sport", "check">>)
\* the answer of an INSERT that stored the row
Stored == DbError("ok", << >>)

transientErrorCodes ==
  {"08000", "08003", "57014", "40P01", "55P03", "53300", "57P01", "57P02", "57P03"}

\* the faults of the store in the runs with several attempts
InsertFaults == {NotNullViolation, CheckViolationSkill, ConnectionException}

\* SQLSTATE codes of connection, serialization, resource and shutdown errors
\* that transientErrorCodes does not list
unlistedCodes == {"08001", "08006", "40001", "53200"}

\* the faults of the store in the runs on its errors: every code of
\* transientErrorCodes, the unlisted ones, the constraint violations, and
\* codes that handleDatabaseError has no case for
AllStoreFaults ==
  {DbError(code, << >>) : code \in transientErrorCodes \cup unlistedCodes \cup {"XX000", "42P01"}}
    \cup {NotNullViolation, CheckViolationSkill, CheckViolationSport,
          DbError("23514", <<"users", "role", "check">>),
          DbError("23505", <<"users", "pkey">>)}

isTransientError(error) == error.code \in transientErrorCodes

includes(constraint, word) == constraint # << >> /\ word \in Range(constraint)

\* error.message of a store error: the text the driver passes on from the server
pgMessage(error) ==
  CASE error.code = "23505" -> "duplicate key value violates unique constraint"
    [] error.code = "23502" -> "null value in column violates not-null constraint"
    [] error.code = "23514" -> "new row for relation violates check constraint"
    [] error.code \in {"08000", "08001", "08003", "08006"} -> "Connection terminated unexpectedly"
    [] error.code = "40001" -> "could not serialize access due to concurrent update"
    [] error.code = "40P01" -> "deadlock detected"
    [] error.code = "57014" -> "canceling statement due to statement timeout"
    [] OTHER -> "the database system is not accepting the statement"

\* variant: codes without a case of their own get the driver's message
handleDatabaseErrorPassingOn(error) ==
  CASE error.code = "23505" ->
         IF includes(error.constraint, "email")
           THEN "An account with this email already exists"
           ELSE "A record with this information already exists"
    [] error.code = "23502" ->
         "Required information is missing. Please check your registration data."
    [] OTHER -> pgMessage(error)

handleDatabaseError(error) ==
  CASE error.code = "23505" ->
         IF includes(error.constraint, "email")
           THEN "An account with this email already exists"
           ELSE "A record with this information already exists"
    [] error.code = "23502" ->
         "Required information is missing. Please check your registration data."
    [] error.code = "23514" ->
         IF includes(error.constraint, "skill_level")
           THEN "Skill level must be between 1.0 and 5.5"
         ELSE IF includes(error.constraint, "preferred_sport")
           THEN "Preferred sport must be tennis, pickleball, or both"
         ELSE "Invalid data provided. Please check your registration information."
    [] error.code = "08000" -> "Database connection error. Please try again later."
    [] error.code = "08003" -> "Database connection lost. Please try again later."
    [] error.code = "57014" -> "Database operation was canceled. Please try again."
    [] error.code = "40P01" -> "Database is temporarily busy. Please try again in a moment."
    [] OTHER -> "Database error occurred. Please try again later."

\* an identity-provider or JavaScript error: code is <<namespace, name>> or << >>
FbError(code, message) == [code |-> code, message |-> message]

EmailAlreadyExists ==
  FbError(<<"auth", "email-already-exists">>,
          "The email address is already in use by another account.")
InternalError ==
  FbError(<<"auth", "internal-error">>, "An internal error has occurred. Raw server response")
NotConfiguredError == FbError(<< >>, "Firebase authentication not configured")
TimedOutError == FbError(<< >>, "Firebase operation timed out")

\* variant: no code table, one message for every error
handleFirebaseErrorGeneric(error) == "Authentication failed"

handleFirebaseError(error) ==
  IF error.code # << >> /\ error.code[1] = "auth"
    THEN CASE error.code[2] = "email-already-exists" -> "An account with this email already exists"
           [] error.code[2] = "invalid-email" -> "Invalid email address"
           [] error.code[2] = "weak-password" -> "Password is too weak"
           [] error.code[2] = "user-not-found" -> "User not found"
           [] error.code[2] = "wrong-password" -> "Incorrect password"
           [] error.code[2] = "user-disabled" -> "This account has been disabled"
           [] error.code[2] = "too-many-requests" -> "Too many failed attempts. Please try again later"
           [] OTHER -> IF error.message # "" THEN error.message ELSE "Authentication failed"
  ELSE IF error.message # ""
    THEN CASE error.message = "EMAIL_NOT_FOUND" -> "No account found with this email address"
           [] error.message = "INVALID_PASSWORD" -> "Incorrect password"
           [] error.message = "USER_DISABLED" -> "This account has been disabled"
           [] error.message = "TOO_MANY_ATTEMPTS_TRY_LATER" -> "Too many failed attempts. Please try again later"
           [] error.message = "INVALID_EMAIL" -> "Invalid email address"
           [] error.message = "INVALID_LOGIN_CREDENTIALS" -> "Invalid email or password"
           [] OTHER -> error.message
  ELSE "Authentication failed"

\* ------------------------------------------------------------------
\* retryDatabaseInsert
\* ------------------------------------------------------------------
\* variants: one attempt fewer, one attempt more
maxRetriesOneLess == 3 - 1
maxRetriesOneMore == 3 + 1

maxRetries == 3
baseDelay == 1000

\* Math.pow(2, n)
RECURSIVE pow2(_)
pow2(n) == IF n = 0 THEN 1 ELSE 2 * pow2(n - 1)

\* the delay slept after a failed attempt
backoffDelay(attempt) == baseDelay * pow2(attempt - 1)

\* variant: every error is retried until the last attempt
rethrowsOnLastAttemptOnly(attempt, error) == attempt = maxRetries

\* the catch block rethrows: last attempt or non-transient error
rethrows(attempt, error) == attempt = maxRetries \/ ~isTransientError(error)


\* ------------------------------------------------------------------
\* Registration requests
\* ------------------------------------------------------------------
ValidRequest ==
  [fullName |-> <<"J", "a", "n", "e", " ", "D", "o", "e">>,
   email |-> <<"a", "@", "b", ".", "c", "o", "m">>,
   confirmEmail |-> <<"a", "@", "b", ".", "c", "o", "m">>,
   password |-> <<"A", "b", "c", "d", "e", "f", "1">>,
   confirmPassword |-> <<"A", "b", "c", "d", "e", "f", "1">>,
   displayName |-> <<"J", "D">>,
   preferredSports |-> <<"tennis">>,
   skillLevel |-> 300,
   zipCode |-> <<"1", "0", "0", "0", "1">>]

\* valid, with a 5+4 ZIP
ValidRequestZipPlus4 ==
  [ValidRequest EXCEPT !.zipCode = <<"1", "0", "0", "0", "1", "-", "1", "2", "3", "4">>]

\* one structural error: the passwords differ
MismatchRequest ==
  [ValidRequest EXCEPT !.confirmPassword = <<"A", "b", "c", "d", "e", "f", "2">>]

\* two structural errors: skill level off the grid and a 4-digit ZIP
OffGridRequest ==
  [ValidRequest EXCEPT !.skillLevel = 225, !.zipCode = <<"1", "0", "0", "0">>]

\* every one of the nine fields fails its check
AllWrongRequest ==
  [fullName |-> <<" ", "J", " ">>,
   email |-> <<"a", "b">>,
   confirmEmail |-> << >>,
   password |-> <<"a", "b", "c">>,
   confirmPassword |-> << >>,
   displayName |-> << >>,
   preferredSports |-> <<"Golf">>,
   skillLevel |-> 600,
   zipCode |-> <<"1", "0", "0", "0", "1", "-", "1">>]

\* the email has no dot after the @; confirmEmail repeats it
BadEmailRequest ==
  [ValidRequest EXCEPT !.email = <<"a", "@", "b">>, !.confirmEmail = <<"a", "@", "b">>]

\* the password has no digit; confirmPassword repeats it
WeakPasswordRequest ==
  [ValidRequest EXCEPT !.password = <<"A", "b", "c", "d", "e", "f">>,
                       !.confirmPassword = <<"A", "b", "c", "d", "e", "f">>]

\* valid requests that differ from ValidRequest in skillLevel only
Skill100Request == [ValidRequest EXCEPT !.skillLevel = 100]
Skill250Request == [ValidRequest EXCEPT !.skillLevel = 250]
Skill550Request == [ValidRequest EXCEPT !.skillLevel = 550]
\* requests whose only error is the skillLevel
Skill099Request == [ValidRequest EXCEPT !.skillLevel = 99]
Skill225Request == [ValidRequest EXCEPT !.skillLevel = 225]
Skill551Request == [ValidRequest EXCEPT !.skillLevel = 551]

\* requests that differ from ValidRequest in preferredSports only
SportsRequest(preferredSports) == [ValidRequest EXCEPT !.preferredSports = preferredSports]

\* the requests by name, and the names concurrent signUp calls are made with
RequestNames == {"valid", "mismatch", "offGrid"}

\* the names a signUp call served alone is made with
AllRequestNames ==
  RequestNames \cup
  {"validZipPlus4", "allWrong", "badEmail", "weakPassword",
   "skill099", "skill100", "skill225", "skill250", "skill550", "skill551",
   "noSports", "golf", "pickleball", "tennisPickleball", "Tennis", "Pickleball",
   "PICKLEBALLtennis", "TennisGolf"}

RequestNamed(name) ==
  CASE name = "valid" -> ValidRequest
    [] name = "validZipPlus4" -> ValidRequestZipPlus4
    [] name = "mismatch" -> MismatchRequest
    [] name = "offGrid" -> OffGridRequest
    [] name = "allWrong" -> AllWrongRequest
    [] name = "badEmail" -> BadEmailRequest
    [] name = "weakPassword" -> WeakPasswordRequest
    [] name = "skill099" -> Skill099Request
    [] name = "skill100" -> Skill100Request
    [] name = "skill225" -> Skill225Request
    [] name = "skill250" -> Skill250Request
    [] name = "skill550" -> Skill550Request
    [] name = "skill551" -> Skill551Request
    [] name = "noSports" -> SportsRequest(<< >>)
    [] name = "golf" -> SportsRequest(<<"Golf">>)
    [] name = "pickleball" -> SportsRequest(<<"pickleball">>)
    [] name = "tennisPickleball" -> SportsRequest(<<"tennis", "pickleball">>)
    [] name = "Tennis" -> SportsRequest(<<"Tennis">>)
    [] name = "Pickleball" -> SportsRequest(<<"Pickleball">>)
    [] name = "PICKLEBALLtennis" -> SportsRequest(<<"PICKLEBALL", "tennis">>)
    [] name = "TennisGolf" -> SportsRequest(<<"Tennis", "Golf">>)

\* ------------------------------------------------------------------
\* State
\* ------------------------------------------------------------------
VARIABLES
  authConfigured,    \* the auth handle exported by config/firebase is defined
  accounts,          \* identity provider: the accounts, [uid, email, password]
  rows,              \* relational store: the rows of the users table
  req,               \* the name of the request each attempt is called with
  pc,                \* where each attempt is suspended
  validationResult,  \* validationResult of each attempt
  firebaseUser,      \* firebaseUser.uid of each attempt, NoUser for null
  createPending,     \* the attempt's createUser call has not completed
  attempt,           \* retryDatabaseInsert: the loop variable
  delays,            \* retryDatabaseInsert: the delays slept, in order
  dbErrorMessage,    \* dbErrorMessage of the inner catch block
  completenessCheck, \* completenessCheck: what verifyDataCompleteness returned
  insertLog,         \* what the store answered to each INSERT: Stored or the error
  calledAfterSuccess,
                     \* an attempt with the same email had returned success
                     \* when this one was called
  calls,             \* calls issued by each attempt, per collaborator operation
  result,            \* the RegistrationResponse returned, once pc is "done"
  apiKeyConfigured,  \* process.env.FIREBASE_API_KEY is set
  minted,            \* identity provider: the number of custom tokens minted
  signIn,            \* the signIn calls: position, signInData, locals, result
  storeFaults,       \* relational store: the errors its INSERT can fail with in this run
  requests           \* the HTTP requests in the middleware chain: req, res, position

vars ==
  <<authConfigured, accounts, rows, req, pc, validationResult, firebaseUser,
    createPending, attempt, delays, dbErrorMessage, completenessCheck, insertLog,
    calledAfterSuccess, calls, result, apiKeyConfigured, minted, signIn, storeFaults, requests>>

\* the state of the signIn calls
signInVars == <<apiKeyConfigured, minted, signIn>>

NoUser == 0

\* the uid the identity provider gives the account created for attempt p
uidOf(p) == p

NoCalls == [createUser |-> 0, deleteUser |-> 0, insert |-> 0, select |-> 0, lookup |-> 0]

NoValidationErrors == [field \in {} |-> NoError]

\* completenessCheck before verifyDataCompleteness has returned
NoCheck == [isComplete |-> FALSE, missingFields |-> {}]

\* validationResult before validateRegistrationData has returned
NoValidationResult == [isValid |-> FALSE, errors |-> NoValidationErrors, cityInfo |-> ""]

NoResult ==
  [success |-> FALSE, fields |-> {}, error |-> "", validationErrors |-> NoValidationErrors,
   userId |-> NoUser, warning |-> ""]

\* { success: false, error, validationErrors }
ValidationFailure(errors) ==
  [NoResult EXCEPT !.fields = {"error", "validationErrors"},
                   !.error = "Validation failed", !.validationErrors = errors]

\* { success: false, error }
Failure(error) == [NoResult EXCEPT !.fields = {"error"}, !.error = error]

\* no custom token; the token the provider mints for uid as its serial-th
NoToken == [uid |-> NoUser, serial |-> 0]
customToken(uid, serial) == [uid |-> uid, serial |-> serial]

\* the SignInResponse before signIn has returned
NoSignInResult ==
  [success |-> FALSE, fields |-> {}, error |-> "", token |-> NoToken, user |-> [id |-> NoUser]]

\* { success: false, error }
SignInFailure(error) == [NoSignInResult EXCEPT !.fields = {"error"}, !.error = error]

\* { success: true, message, token, user: { id, email, name, displayName, token } }
SignInSuccess(token, uid, userProfile) ==
  [success |-> TRUE,
   fields |-> {"message", "token", "user"},
   error |-> "",
   token |-> token,
   user |-> [id |-> uid,
             email |-> userProfile.email,
             name |-> userProfile.name,
             displayName |-> userProfile.display_name,
             token |-> token]]

\* userProfile before the SELECT of signIn has answered
NoProfile == [email |-> << >>, name |-> << >>, display_name |-> << >>, role |-> ""]

\* result.rows[0] of SELECT id, email, name, display_name, role
profileOf(row) ==
  [email |-> row.email, name |-> row.name, display_name |-> row.display_name,
   role |-> row.role]

\* variant: the outer catch block rethrows, the error leaves signUp
outerCatchRethrows(error) ==
  [NoResult EXCEPT !.fields = {"exception"}, !.error = error.message]

\* the outer catch block with firebaseUser null:
\* { success: false, error: this.handleFirebaseError(error) }
outerCatch(error) == Failure(handleFirebaseError(error))

\* variant: incomplete data is reported as a failure
SuccessDowngraded(uid, isComplete) ==
  IF isComplete
    THEN [NoResult EXCEPT !.success = TRUE, !.fields = {"message", "userId"}, !.userId = uid]
    ELSE Failure("Some profile information may be incomplete")

\* { success: true, message, userId } with the warning when the data is incomplete
Success(uid, isComplete) ==
  IF isComplete
    THEN [NoResult EXCEPT !.success = TRUE, !.fields = {"message", "userId"}, !.userId = uid]
    ELSE [NoResult EXCEPT !.success = TRUE, !.fields = {"message", "userId", "warning"},
                          !.userId = uid,
                          !.warning = "Some profile information may be incomplete"]

\* a users row that exists before any attempt of this run (its identity
\* account is gone from the provider)
LegacyRow == [rowOf(userDataOf(ValidRequest, "")) EXCEPT !.name = <<"J", "o", "e">>]

\* a signIn call that has not been made yet
NotSignedIn ==
  [pc |-> "start", signInData |-> "", firebaseUser |-> NoUser, userProfile |-> NoProfile,
   result |-> NoSignInResult]

\* the state in which no signIn call has been made yet
NoSignInYet ==
  /\ minted = 0
  /\ signIn = [k \in SignIns |-> NotSignedIn]

\* req.user before authenticateToken has attached it
NoReqUser == [uid |-> NoUser, email |-> << >>, role |-> ""]

\* the middleware that admin routes can mount after authenticateToken:
\* requireAdminRole (the one routes/index.ts and courtRoutes.ts mount),
\* requireAdmin, requireSuperAdmin; "none" is a route with authenticateToken only
Gates == {"none", "requireAdminRole", "requireAdmin", "requireSuperAdmin"}

\* a request the middleware chain has not received yet; next counts the
\* next() calls of authenticateToken, handled tells that the route handler ran
NotReceived ==
  [pc |-> "start", gate |-> "none", authorization |-> "", token |-> << >>,
   verified |-> FALSE, user |-> NoReqUser, userRole |-> "", status |-> 0, error |-> "",
   next |-> 0, handled |-> FALSE]

\* the state in which no request has reached a route with gate `gate`
NoRequestYet(gate) == requests = [k \in Requests |-> [NotReceived EXCEPT !.gate = gate]]

\* the collaborators before the first signUp call: no account, and possibly a row
FreshEnvironment ==
  /\ authConfigured \in BOOLEAN
  /\ accounts = {}
  /\ rows \in {{}, {LegacyRow}}

\* the state in which no signUp call has been made yet
NotCalledYet ==
  /\ completenessCheck = [p \in Attempts |-> NoCheck]
  /\ pc = [p \in Attempts |-> "start"]
  /\ validationResult = [p \in Attempts |-> NoValidationResult]
  /\ firebaseUser = [p \in Attempts |-> NoUser]
  /\ createPending = [p \in Attempts |-> FALSE]
  /\ attempt = [p \in Attempts |-> 0]
  /\ delays = [p \in Attempts |-> << >>]
  /\ dbErrorMessage = [p \in Attempts |-> ""]
  /\ insertLog = [p \in Attempts |-> << >>]
  /\ calledAfterSuccess = [p \in Attempts |-> FALSE]
  /\ calls = [p \in Attempts |-> NoCalls]
  /\ result = [p \in Attempts |-> NoResult]

Init ==
  /\ req \in [Attempts -> RequestNames]
  /\ FreshEnvironment
  /\ NotCalledYet
  /\ NoSignInYet
  /\ apiKeyConfigured = TRUE
  /\ storeFaults = InsertFaults
  /\ NoRequestYet("none")

\* signUpData of attempt p
signUpData(p) == RequestNamed(req[p])

accountsWithEmail(email) == {a \in accounts : a.email = email}
rowsWithEmail(email) == {r \in rows : r.email = email}

userData(p) == userDataOf(signUpData(p), validationResult[p].cityInfo)

\* the account createUser makes for attempt p
accountFor(p) ==
  [uid |-> uidOf(p), email |-> signUpData(p).email, password |-> signUpData(p).password]

\* signUp returns `r`
Return(p, r) ==
  /\ pc' = [pc EXCEPT ![p] = "done"]
  /\ result' = [result EXCEPT ![p] = r]

\* auth.createUser is called (createFirebaseUserWithTimeout)
IssueCreateUser(p) ==
  /\ pc' = [pc EXCEPT ![p] = "creating"]
  /\ createPending' = [createPending EXCEPT ![p] = TRUE]
  /\ calls' = [calls EXCEPT ![p].createUser = @ + 1]


\* ------------------------------------------------------------------
\* signUp, one action per resumption of the async function
\* ------------------------------------------------------------------
\* signUp is called: the auth check, then validateRegistrationData up to its
\* first suspension (the early return, the fetch, or the createUser call)
Start(p) ==
  /\ pc[p] = "start"
  /\ calledAfterSuccess' =
       [calledAfterSuccess EXCEPT ![p] =
          \E q \in Attempts \ {p} :
            pc[q] = "done" /\ result[q].success /\ signUpData(q).email = signUpData(p).email]
  /\ UNCHANGED <<signInVars, requests, storeFaults, authConfigured, completenessCheck, accounts, rows, req, firebaseUser, attempt, delays,
                 dbErrorMessage, insertLog>>
  /\ IF ~authConfigured
       THEN /\ Return(p, outerCatch(NotConfiguredError))
            /\ UNCHANGED <<validationResult, createPending, calls>>
     ELSE IF ~structuralResult(signUpData(p)).isValid
       THEN /\ Return(p, ValidationFailure(structuralResult(signUpData(p)).errors))
            /\ validationResult' = [validationResult EXCEPT ![p] = structuralResult(signUpData(p))]
            /\ UNCHANGED <<createPending, calls>>
     ELSE IF lookupIssued(signUpData(p).zipCode)
       THEN /\ pc' = [pc EXCEPT ![p] = "lookup"]
            /\ calls' = [calls EXCEPT ![p].lookup = @ + 1]
            /\ UNCHANGED <<validationResult, createPending, result>>
     ELSE /\ validationResult' = [validationResult EXCEPT ![p] = structuralResult(signUpData(p))]
          /\ IssueCreateUser(p)
          /\ UNCHANGED result

\* the fetch of getCityFromZipCode returns; validateRegistrationData returns
\* isValid with the cityInfo; createUser is called
LookupReturns(p) ==
  /\ pc[p] = "lookup"
  /\ \E response \in LookupFound \cup LookupFailures :
       /\ validationResult' =
            [validationResult EXCEPT ![p] = resultAfterLookup(signUpData(p), response)]
       /\ IF resultAfterLookup(signUpData(p), response).isValid
            THEN /\ IssueCreateUser(p)
                 /\ UNCHANGED result
            ELSE /\ Return(p, ValidationFailure(resultAfterLookup(signUpData(p), response).errors))
                 /\ UNCHANGED <<createPending, calls>>
  /\ UNCHANGED <<signInVars, requests, storeFaults, authConfigured, completenessCheck, accounts, rows, req, firebaseUser, attempt,
                 delays, dbErrorMessage, insertLog, calledAfterSuccess>>

\* the INSERT of retryDatabaseInsert is sent
IssueInsert(p, n) ==
  /\ attempt' = [attempt EXCEPT ![p] = n]
  /\ calls' = [calls EXCEPT ![p].insert = @ + 1]
  /\ pc' = [pc EXCEPT ![p] = "inserting"]

\* the errors createUser can fail with: a provider fault, and, because the
\* provider keeps one account per email, auth/email-already-exists when an
\* account with the email exists
createUserErrors(email) ==
  IF accountsWithEmail(email) # {} THEN {EmailAlreadyExists, InternalError} ELSE {InternalError}

\* createUser wins the race against the timeout
CreateUserReturns(p) ==
  /\ pc[p] = "creating"
  /\ createPending' = [createPending EXCEPT ![p] = FALSE]
  /\ UNCHANGED <<signInVars, requests, storeFaults, authConfigured, completenessCheck, rows, req, validationResult, delays, dbErrorMessage, insertLog,
                 calledAfterSuccess>>
  /\ \/ /\ accountsWithEmail(signUpData(p).email) = {}
        /\ accounts' = accounts \cup {accountFor(p)}
        /\ firebaseUser' = [firebaseUser EXCEPT ![p] = uidOf(p)]
        /\ IssueInsert(p, 1)
        /\ UNCHANGED result
     \/ /\ \E error \in createUserErrors(signUpData(p).email) :
             Return(p, outerCatch(error))
        /\ UNCHANGED <<accounts, firebaseUser, attempt, calls>>

\* the timeout wins the race: signUp returns, the createUser call stays in flight
CreateUserTimesOut(p) ==
  /\ pc[p] = "creating"
  /\ Return(p, outerCatch(TimedOutError))
  /\ UNCHANGED <<signInVars, requests, storeFaults, authConfigured, completenessCheck, accounts, rows, req, validationResult, firebaseUser,
                 createPending, attempt, delays, dbErrorMessage, insertLog, calledAfterSuccess, calls>>

\* a createUser call that lost the race completes at the provider (Promise.race
\* does not cancel it); its result is dropped
LateCreateUser(p) ==
  /\ pc[p] = "done"
  /\ createPending[p]
  /\ createPending' = [createPending EXCEPT ![p] = FALSE]
  /\ \/ /\ accountsWithEmail(signUpData(p).email) = {}
        /\ accounts' = accounts \cup {accountFor(p)}
     \/ UNCHANGED accounts
  /\ UNCHANGED <<signInVars, requests, storeFaults, authConfigured, completenessCheck, rows, req, pc, validationResult, firebaseUser, attempt,
                 delays, dbErrorMessage, insertLog, calledAfterSuccess, calls, result>>

\* the errors an INSERT can fail with: the unique constraint on email when the
\* row exists, or a fault of the store
insertErrors(email) ==
  IF rowsWithEmail(email) # {} THEN storeFaults \cup {UniqueViolationEmail} ELSE storeFaults

\* variant: the catch block returns without calling rollbackFirebaseUser
CatchDbErrorNoRollback(p, dbError) ==
  /\ dbErrorMessage' = [dbErrorMessage EXCEPT ![p] = handleDatabaseError(dbError)]
  /\ Return(p, Failure(handleDatabaseError(dbError)))
  /\ UNCHANGED <<attempt, delays, calls>>

\* variant: rollbackFirebaseUser is called without await, signUp returns at once
CatchDbErrorNotAwaiting(p, dbError) ==
  /\ dbErrorMessage' = [dbErrorMessage EXCEPT ![p] = handleDatabaseError(dbError)]
  /\ calls' = [calls EXCEPT ![p].deleteUser = @ + 1]
  /\ Return(p, Failure(handleDatabaseError(dbError)))
  /\ UNCHANGED <<attempt, delays>>

\* variant: the inner catch block rethrows after its rollback, and the outer
\* catch block, finding firebaseUser set, calls rollbackFirebaseUser again
CatchDbErrorRollingBackTwice(p, dbError) ==
  /\ dbErrorMessage' = [dbErrorMessage EXCEPT ![p] = handleDatabaseError(dbError)]
  /\ calls' = [calls EXCEPT ![p].deleteUser = @ + 2]
  /\ pc' = [pc EXCEPT ![p] = "rollback"]
  /\ UNCHANGED <<attempt, delays, result>>

\* the inner catch block up to the deleteUser call of rollbackFirebaseUser
CatchDbError(p, dbError) ==
  /\ dbErrorMessage' = [dbErrorMessage EXCEPT ![p] = handleDatabaseError(dbError)]
  /\ calls' = [calls EXCEPT ![p].deleteUser = @ + 1]
  /\ pc' = [pc EXCEPT ![p] = "rollback"]
  /\ UNCHANGED <<attempt, delays, result>>

\* the INSERT returns: the row is stored and the SELECT of
\* verifyDataCompleteness is sent, or the catch block of the retry loop runs
InsertReturns(p) ==
  /\ pc[p] = "inserting"
  /\ UNCHANGED <<signInVars, requests, storeFaults, authConfigured, completenessCheck, accounts, req, validationResult, firebaseUser, createPending,
                 calledAfterSuccess>>
  /\ \/ /\ rowsWithEmail(signUpData(p).email) = {}
        /\ rows' = rows \cup {rowOf(userData(p))}
        /\ insertLog' = [insertLog EXCEPT ![p] = Append(@, Stored)]
        /\ calls' = [calls EXCEPT ![p].select = @ + 1]
        /\ pc' = [pc EXCEPT ![p] = "verifying"]
        /\ UNCHANGED <<attempt, delays, dbErrorMessage, result>>
     \/ \E error \in insertErrors(signUpData(p).email) :
          /\ insertLog' = [insertLog EXCEPT ![p] = Append(@, error)]
          /\ UNCHANGED rows
          /\ IF rethrows(attempt[p], error)
               THEN CatchDbError(p, error)
               ELSE /\ delays' = [delays EXCEPT ![p] = Append(@, backoffDelay(attempt[p]))]
                    /\ pc' = [pc EXCEPT ![p] = "sleeping"]
                    /\ UNCHANGED <<attempt, dbErrorMessage, calls, result>>

\* sleep(delay) is over: the next iteration sends the INSERT again
SleepReturns(p) ==
  /\ pc[p] = "sleeping"
  /\ IssueInsert(p, attempt[p] + 1)
  /\ UNCHANGED <<signInVars, requests, storeFaults, authConfigured, completenessCheck, accounts, rows, req, validationResult, firebaseUser,
                 createPending, delays, dbErrorMessage, insertLog, calledAfterSuccess, result>>

\* variant: a failed deleteUser is rethrown and reaches the outer catch block
afterRollbackSurfacing(message, deleted) ==
  IF deleted THEN Failure(message) ELSE Failure("Authentication failed")

\* what signUp returns after rollbackFirebaseUser, whose deleteUser call
\* succeeded or failed
afterRollback(message, deleted) == Failure(message)

\* deleteUser returns or throws; rollbackFirebaseUser returns; signUp returns
DeleteUserReturns(p) ==
  /\ pc[p] = "rollback"
  /\ \E deleted \in BOOLEAN :
       /\ accounts' = IF deleted THEN {a \in accounts : a.uid # firebaseUser[p]} ELSE accounts
       /\ Return(p, afterRollback(dbErrorMessage[p], deleted))
  /\ UNCHANGED <<signInVars, requests, storeFaults, authConfigured, completenessCheck, rows, req, validationResult, firebaseUser, createPending,
                 attempt, delays, dbErrorMessage, insertLog, calledAfterSuccess, calls>>

\* verifyDataCompleteness: isComplete for what the SELECT answered
isComplete(answer, p) ==
  /\ answer = "rows"
  /\ rowsWithEmail(signUpData(p).email) # {}
  /\ \A row \in rowsWithEmail(signUpData(p).email) :
       missingFieldsOf(storedDataOf(row), userData(p)) = {}

\* verifyDataCompleteness: the value returned for what the SELECT answered
verifyDataCompleteness(answer, p) ==
  [isComplete |-> isComplete(answer, p),
   missingFields |->
     CASE answer = "error" -> {"verification_failed"}
       [] answer = "rows" /\ rowsWithEmail(signUpData(p).email) = {} -> {"all"}
       [] answer = "empty" -> {"all"}
       [] OTHER ->
            UNION {missingFieldsOf(storedDataOf(row), userData(p)) :
                     row \in rowsWithEmail(signUpData(p).email)}]

\* the SELECT of verifyDataCompleteness returns the rows, returns no row, or
\* fails; signUp returns success in each case
SelectReturns(p) ==
  /\ pc[p] = "verifying"
  /\ \E answer \in {"rows", "empty", "error"} :
       /\ completenessCheck' =
            [completenessCheck EXCEPT ![p] = verifyDataCompleteness(answer, p)]
       /\ Return(p, Success(firebaseUser[p], verifyDataCompleteness(answer, p).isComplete))
  /\ UNCHANGED <<signInVars, requests, storeFaults, authConfigured, accounts, rows, req, validationResult, firebaseUser,
                 createPending, attempt, delays, dbErrorMessage, insertLog, calledAfterSuccess, calls>>

Next ==
  \E p \in Attempts :
    \/ Start(p)
    \/ LookupReturns(p)
    \/ CreateUserReturns(p)
    \/ CreateUserTimesOut(p)
    \/ LateCreateUser(p)
    \/ InsertReturns(p)
    \/ SleepReturns(p)
    \/ DeleteUserReturns(p)
    \/ SelectReturns(p)

Spec == Init /\ [][Next]_vars

\* an external call of attempt p returns or fails, or its timer fires
Resume(p) ==
  \/ LookupReturns(p)
  \/ CreateUserReturns(p)
  \/ CreateUserTimesOut(p)
  \/ InsertReturns(p)
  \/ SleepReturns(p)
  \/ DeleteUserReturns(p)
  \/ SelectReturns(p)

\* one signUp call served alone, made with any of the requests
Alone == CHOOSE p \in Attempts : \A q \in Attempts : p <= q

SingleInit ==
  /\ req \in {r \in [Attempts -> AllRequestNames] : \A p \in Attempts \ {Alone} : r[p] = "valid"}
  /\ FreshEnvironment
  /\ NotCalledYet
  /\ NoSignInYet
  /\ apiKeyConfigured = TRUE
  /\ storeFaults = InsertFaults
  /\ NoRequestYet("none")

SingleNext ==
  \/ Start(Alone)
  \/ LookupReturns(Alone)
  \/ CreateUserReturns(Alone)
  \/ CreateUserTimesOut(Alone)
  \/ LateCreateUser(Alone)
  \/ InsertReturns(Alone)
  \/ SleepReturns(Alone)
  \/ DeleteUserReturns(Alone)
  \/ SelectReturns(Alone)

SingleSpec == SingleInit /\ [][SingleNext]_vars

\* one signUp call of ValidRequest, served alone, against a store that can fail
\* with any of AllStoreFaults
StoreFaultInit ==
  /\ req = [p \in Attempts |-> "valid"]
  /\ FreshEnvironment
  /\ NotCalledYet
  /\ NoSignInYet
  /\ apiKeyConfigured = TRUE
  /\ storeFaults = AllStoreFaults
  /\ NoRequestYet("none")

StoreFaultSpec == StoreFaultInit /\ [][SingleNext]_vars

\* the runs of StoreFaultSpec in which every external call that the attempt
\* awaits returns or fails, and the event loop resumes the attempt
FairSpec == StoreFaultSpec /\ WF_vars(Resume(Alone))


\* ------------------------------------------------------------------
\* signIn, one action per resumption of the async function
\* ------------------------------------------------------------------
\* the state of the signUp calls and of the collaborators they change
signUpVars ==
  <<authConfigured, accounts, rows, req, pc, validationResult, firebaseUser, createPending,
    attempt, delays, dbErrorMessage, completenessCheck, insertLog, calledAfterSuccess, calls,
    result, storeFaults>>

WrongPassword == <<"A", "b", "c", "d", "e", "f", "2">>
OtherEmail == <<"n", "@", "b", ".", "c", "o", "m">>

\* the SignInRequests by name
Credentials == {"jane", "janeWrongPassword", "nobody"}

SignInRequestNamed(name) ==
  CASE name = "jane" -> [email |-> ValidRequest.email, password |-> ValidRequest.password]
    [] name = "janeWrongPassword" -> [email |-> ValidRequest.email, password |-> WrongPassword]
    [] name = "nobody" -> [email |-> OtherEmail, password |-> ValidRequest.password]

\* signInData of call k
signInDataOf(k) == SignInRequestNamed(signIn[k].signInData)

ApiKeyError == FbError(<< >>, "Firebase API key not configured")
FetchFailed == FbError(<< >>, "fetch failed")
\* an error of the store: its code is a SQLSTATE, not an auth/ code
StoreDown == FbError(<<"08000">>, "Connection terminated unexpectedly")

\* authData.error.message of a non-OK answer of accounts:signInWithPassword:
\* the rejection of the credentials, or a condition of the provider
credentialRejections == {"INVALID_PASSWORD", "INVALID_LOGIN_CREDENTIALS"}
providerConditions == {"TOO_MANY_ATTEMPTS_TRY_LATER", "USER_DISABLED", "OPERATION_NOT_ALLOWED"}

\* the provider accepts the password of call k
passwordAccepted(k) ==
  \E a \in accountsWithEmail(signInDataOf(k).email) : a.password = signInDataOf(k).password

restErrors(k) ==
  IF passwordAccepted(k) THEN providerConditions
  ELSE providerConditions \cup credentialRejections

\* the switch on authData.error?.message; the REST error has a numeric code
restErrorMessage(message) ==
  CASE message = "INVALID_PASSWORD" -> "Incorrect password. Please try again."
    [] message = "USER_NOT_FOUND" -> "No account found with this email address"
    [] message = "INVALID_EMAIL" -> "Please enter a valid email address"
    [] message = "TOO_MANY_ATTEMPTS_TRY_LATER" ->
         "Too many failed attempts. Please try again later."
    [] OTHER -> handleFirebaseError(FbError(<< >>, message))

\* variant: signIn compensates like signUp, a step of it deletes the accounts
signInDeletesAccounts ==
  /\ accounts' = {}
  /\ UNCHANGED <<authConfigured, rows, req, pc, validationResult, firebaseUser, createPending,
                 attempt, delays, dbErrorMessage, completenessCheck, insertLog,
                 calledAfterSuccess, calls, result, storeFaults>>

\* the calls of signIn (getUserByEmail, the password fetch, the SELECT,
\* createCustomToken) change neither the accounts nor the rows, and signIn
\* has no other effect on what signUp reads or writes
signInWritesNothing == UNCHANGED signUpVars

\* variant: the answer of the password fetch is not tested
authResponseUnchecked(k) == TRUE

\* authResponse.ok: the provider accepted the password
authResponseOk(k) == passwordAccepted(k)

\* signIn returns `r` from call k
SignInReturn(k, r) == signIn' = [signIn EXCEPT ![k].pc = "done", ![k].result = r]

\* signIn is called: the auth check, then auth.getUserByEmail is called
SignInStart(k) ==
  /\ signIn[k].pc = "start"
  /\ \E name \in Credentials :
       signIn' =
         [signIn EXCEPT ![k] =
            IF ~authConfigured
              THEN [@ EXCEPT !.signInData = name, !.pc = "done",
                             !.result = SignInFailure(handleFirebaseError(NotConfiguredError))]
              ELSE [@ EXCEPT !.signInData = name, !.pc = "getUser"]]
  /\ signInWritesNothing
  /\ UNCHANGED <<requests, apiKeyConfigured, minted>>

\* getUserByEmail returns the account, or fails (no such account, or a fault);
\* with the account, the API key check, then the password fetch is sent
GetUserReturns(k) ==
  /\ signIn[k].pc = "getUser"
  /\ \/ \E a \in accountsWithEmail(signInDataOf(k).email) :
          signIn' =
            [signIn EXCEPT ![k] =
               IF ~apiKeyConfigured
                 THEN [@ EXCEPT !.firebaseUser = a.uid, !.pc = "done",
                                !.result = SignInFailure(handleFirebaseError(ApiKeyError))]
                 ELSE [@ EXCEPT !.firebaseUser = a.uid, !.pc = "password"]]
     \/ SignInReturn(k, SignInFailure("No account found with this email address"))
  /\ signInWritesNothing
  /\ UNCHANGED <<requests, apiKeyConfigured, minted>>

\* the fetch of accounts:signInWithPassword returns OK (the SELECT is sent),
\* returns an error, or throws
PasswordReturns(k) ==
  /\ signIn[k].pc = "password"
  /\ \/ /\ authResponseOk(k)
        /\ signIn' = [signIn EXCEPT ![k].pc = "select"]
     \/ \E message \in restErrors(k) :
          SignInReturn(k, SignInFailure(restErrorMessage(message)))
     \/ SignInReturn(k, SignInFailure(handleFirebaseError(FetchFailed)))
  /\ signInWritesNothing
  /\ UNCHANGED <<requests, apiKeyConfigured, minted>>

\* the SELECT of the profile returns no row, returns the row (createCustomToken
\* is called), or fails
ProfileReturns(k) ==
  /\ signIn[k].pc = "select"
  /\ \/ /\ rowsWithEmail(signInDataOf(k).email) = {}
        /\ SignInReturn(k, SignInFailure("User profile not found"))
     \/ \E row \in rowsWithEmail(signInDataOf(k).email) :
          signIn' = [signIn EXCEPT ![k].userProfile = profileOf(row), ![k].pc = "mint"]
     \/ SignInReturn(k, SignInFailure(handleFirebaseError(StoreDown)))
  /\ signInWritesNothing
  /\ UNCHANGED <<requests, apiKeyConfigured, minted>>

\* createCustomToken returns a token, or fails; signIn returns
MintReturns(k) ==
  /\ signIn[k].pc = "mint"
  /\ \/ /\ minted' = minted + 1
        /\ SignInReturn(k, SignInSuccess(customToken(signIn[k].firebaseUser, minted + 1),
                                         signIn[k].firebaseUser, signIn[k].userProfile))
     \/ /\ SignInReturn(k, SignInFailure(handleFirebaseError(InternalError)))
        /\ UNCHANGED minted
  /\ signInWritesNothing
  /\ UNCHANGED <<requests, apiKeyConfigured>>

\* the account and the row a successful signUp of ValidRequest leaves, the
\* row with the role it has been given since
JaneAccount ==
  [uid |-> uidOf(Alone), email |-> ValidRequest.email, password |-> ValidRequest.password]

JaneRow(role) == [rowOf(userDataOf(ValidRequest, "New York, NY")) EXCEPT !.role = role]

\* what earlier signUp calls can have left: nothing, a row without account,
\* an account without row, an account with its row
Environments ==
  {<<{}, {}>>, <<{}, {LegacyRow}>>, <<{JaneAccount}, {}>>}
    \cup {<<{JaneAccount}, {JaneRow(role)}>> : role \in {"player", "admin", "superadmin"}}

SignInInit ==
  /\ authConfigured \in BOOLEAN
  /\ apiKeyConfigured \in BOOLEAN
  /\ \E e \in Environments : accounts = e[1] /\ rows = e[2]
  /\ req = [p \in Attempts |-> "valid"]
  /\ NotCalledYet
  /\ NoSignInYet
  /\ storeFaults = InsertFaults
  /\ NoRequestYet("none")

SignInNext ==
  \E k \in SignIns :
    \/ SignInStart(k)
    \/ GetUserReturns(k)
    \/ PasswordReturns(k)
    \/ ProfileReturns(k)
    \/ MintReturns(k)

SignInSpec == SignInInit /\ [][SignInNext]_vars

\* ------------------------------------------------------------------
\* The middleware chain: authenticateToken, then the gate of the route
\* ------------------------------------------------------------------
\* the prefix authenticateToken looks for
Bearer == <<"B", "e", "a", "r", "e", "r", " ">>

\* the ID token the provider issued to the client of the account of
\* ValidRequest; every other token is one the provider did not issue
IdTokenJane == <<"j">>
ForgedToken == <<"x">>

\* req.headers.authorization by name: absent is undefined
AuthorizationHeaders ==
  {"absent", "empty", "basic", "lowercase", "bearerOnly", "bearerJane", "bearerForged",
   "bearerTwoSpaces", "bearerJaneMore"}

AuthorizationNamed(name) ==
  CASE name = "absent" -> [present |-> FALSE, value |-> << >>]
    [] name = "empty" -> [present |-> TRUE, value |-> << >>]
    [] name = "basic" -> [present |-> TRUE, value |-> <<"B", "a", "s", "i", "c", " ">> \o IdTokenJane]
    [] name = "lowercase" ->
         [present |-> TRUE, value |-> <<"b", "e", "a", "r", "e", "r", " ">> \o IdTokenJane]
    [] name = "bearerOnly" -> [present |-> TRUE, value |-> Bearer]
    [] name = "bearerJane" -> [present |-> TRUE, value |-> Bearer \o IdTokenJane]
    [] name = "bearerForged" -> [present |-> TRUE, value |-> Bearer \o ForgedToken]
    [] name = "bearerTwoSpaces" -> [present |-> TRUE, value |-> Bearer \o <<" ">> \o IdTokenJane]
    [] name = "bearerJaneMore" ->
         [present |-> TRUE, value |-> Bearer \o IdTokenJane \o <<" ">> \o ForgedToken]

\* String.prototype.startsWith
startsWith(s, prefix) == Len(s) >= Len(prefix) /\ SubSeq(s, 1, Len(prefix)) = prefix

\* s.split(' ')[1]: what stands between the first space and the next one
spacesOf(s) == {i \in 1..Len(s) : s[i] = " "}
firstIn(S) == CHOOSE i \in S : \A j \in S : i <= j
secondPiece(s) ==
  IF spacesOf(s) = {} THEN << >>
  ELSE IF {i \in spacesOf(s) : i > firstIn(spacesOf(s))} = {}
    THEN SubSeq(s, firstIn(spacesOf(s)) + 1, Len(s))
  ELSE SubSeq(s, firstIn(spacesOf(s)) + 1,
              firstIn({i \in spacesOf(s) : i > firstIn(spacesOf(s))}) - 1)

\* variant: only the presence of the header is checked
authHeaderRejectedUnlessPresent(header) == ~header.present \/ header.value = << >>

\* !authHeader || !authHeader.startsWith('Bearer ')
authHeaderRejected(header) ==
  ~header.present \/ header.value = << >> \/ ~startsWith(header.value, Bearer)

\* the FirebaseUser that verifyToken makes of the decoded IdTokenJane
decodedUser == [NoReqUser EXCEPT !.uid = uidOf(Alone), !.email = ValidRequest.email]

\* variant: a user without a known role is taken for an admin
roleOrAdmin(userRole) == IF userRole = "" THEN "admin" ELSE userRole

\* userRole || UserRole.PLAYER, where "" stands for null
roleOrPlayer(userRole) == IF userRole = "" THEN "player" ELSE userRole

\* roleHierarchy[userRole] >= roleHierarchy[requiredRole]
roleHierarchy == [player |-> 1, admin |-> 2, superadmin |-> 3]
hasRole(userRole, requiredRole) == roleHierarchy[userRole] >= roleHierarchy[requiredRole]

\* res.status(status).json({ success: false, error })
Respond(r, status, error) == [r EXCEPT !.status = status, !.error = error, !.pc = "done"]

\* the middleware calls next() and the route handler is reached
Handle(r) == [r EXCEPT !.handled = TRUE, !.pc = "done"]

\* requireAdmin, for the request whose user authenticateToken has attached
requireAdmin(r) ==
  IF r.user = NoReqUser THEN Respond(r, 401, "Authentication required")
  ELSE IF r.user.role # "admin" /\ r.user.role # "superadmin"
    THEN Respond(r, 403, "Admin access required")
  ELSE Handle(r)

\* requireSuperAdmin
requireSuperAdmin(r) ==
  IF r.user = NoReqUser THEN Respond(r, 401, "Authentication required")
  ELSE IF r.user.role # "superadmin" THEN Respond(r, 403, "Superadmin access required")
  ELSE Handle(r)

\* requireAdminRole once its SELECT has answered with the role, "" for no row
requireAdminRoleAfterSelect(r, role) ==
  IF role = "" THEN Respond([r EXCEPT !.userRole = role], 403, "Access denied: User not found")
  ELSE IF role # "admin"
    THEN Respond([r EXCEPT !.userRole = role], 403, "Access denied: Admin role required")
  ELSE Handle([r EXCEPT !.userRole = role])

\* next() of authenticateToken: the gate of the route runs up to its first
\* suspension, or the route handler does
afterNext(r) ==
  CASE r.gate = "none" -> Handle(r)
    [] r.gate = "requireAdmin" -> requireAdmin(r)
    [] r.gate = "requireSuperAdmin" -> requireSuperAdmin(r)
    [] r.gate = "requireAdminRole" -> [r EXCEPT !.pc = "adminRole"]

\* what SELECT role FROM users WHERE email = $1 answers: the role of the row,
\* "" when there is no row
rolesStored(email) ==
  IF rowsWithEmail(email) = {} THEN {""} ELSE {row.role : row \in rowsWithEmail(email)}

\* authenticateToken is called: the header check, then verifyToken is called
ReceiveRequest(k) ==
  /\ requests[k].pc = "start"
  /\ \E name \in AuthorizationHeaders :
       requests' =
         [requests EXCEPT ![k] =
            IF authHeaderRejected(AuthorizationNamed(name))
              THEN Respond([@ EXCEPT !.authorization = name], 401, "Authorization header required")
              ELSE [@ EXCEPT !.authorization = name,
                             !.token = secondPiece(AuthorizationNamed(name).value),
                             !.pc = "verify"]]
  /\ UNCHANGED <<signUpVars, signInVars>>

\* verifyToken returns: null when auth is not configured or verifyIdToken
\* rejects the token, the user when it decodes it (getUserRole is called)
VerifyReturns(k) ==
  /\ requests[k].pc = "verify"
  /\ \/ /\ authConfigured
        /\ requests[k].token = IdTokenJane
        /\ requests' = [requests EXCEPT ![k].verified = TRUE, ![k].user = decodedUser,
                                        ![k].pc = "role"]
     \/ requests' = [requests EXCEPT ![k] = Respond(@, 401, "Invalid or expired token")]
  /\ UNCHANGED <<signUpVars, signInVars>>

\* getUserRole returns the role, or null (no row, or the SELECT failed);
\* req.user is attached and next() is called
RoleReturns(k) ==
  /\ requests[k].pc = "role"
  /\ \E userRole \in rolesStored(requests[k].user.email) \cup {""} :
       requests' =
         [requests EXCEPT ![k] =
            afterNext([@ EXCEPT !.user.role = roleOrPlayer(userRole), !.next = @ + 1])]
  /\ UNCHANGED <<signUpVars, signInVars>>

\* the SELECT of requireAdminRole answers, or fails
AdminRoleReturns(k) ==
  /\ requests[k].pc = "adminRole"
  /\ \/ \E role \in rolesStored(requests[k].user.email) :
          requests' = [requests EXCEPT ![k] = requireAdminRoleAfterSelect(@, role)]
     \/ requests' = [requests EXCEPT ![k] = Respond(@, 500, "Failed to verify admin role")]
  /\ UNCHANGED <<signUpVars, signInVars>>

\* the requests of one run go to routes with the same gate
MiddlewareInit ==
  /\ authConfigured \in BOOLEAN
  /\ apiKeyConfigured = TRUE
  /\ \E e \in Environments : accounts = e[1] /\ rows = e[2]
  /\ req = [p \in Attempts |-> "valid"]
  /\ NotCalledYet
  /\ NoSignInYet
  /\ storeFaults = InsertFaults
  /\ \E gate \in Gates : NoRequestYet(gate)

MiddlewareNext ==
  \E k \in Requests :
    \/ ReceiveRequest(k)
    \/ VerifyReturns(k)
    \/ RoleReturns(k)
    \/ AdminRoleReturns(k)

MiddlewareSpec == MiddlewareInit /\ [][MiddlewareNext]_vars

\* ------------------------------------------------------------------
\* Vocabulary of the properties
\* ------------------------------------------------------------------
Last(s) == s[Len(s)]

\* the names of the requests with a structural field error, and of those without
InvalidRequests == {"mismatch", "offGrid"}
ValidRequests == {"valid", "validZipPlus4"}

returned(p) == pc[p] = "done"

\* the identity account created for attempt p
accountOf(p) == {a \in accounts : a.uid = uidOf(p)}

noProviderOrStoreCalls(p) ==
  /\ calls[p].createUser = 0
  /\ calls[p].deleteUser = 0
  /\ calls[p].insert = 0
  /\ calls[p].select = 0

nonTransientCodes == {"23505", "23502", "23514"}

allTransient(log) == \A i \in DOMAIN log : log[i].code \in transientErrorCodes

\* ------------------------------------------------------------------
\* C1
\* ------------------------------------------------------------------
\* C1 as stated: for every request with a structural field error, in every
\* configuration, signUp returns success=false with a non-empty field-error
\* map and makes no identity-provider call and no store call.
C1_FieldErrorsInEveryConfiguration ==
  \A p \in Attempts :
    req[p] \in InvalidRequests =>
      /\ noProviderOrStoreCalls(p)
      /\ returned(p) =>
           /\ ~result[p].success
           /\ "validationErrors" \in result[p].fields
           /\ DOMAIN result[p].validationErrors # {}

\* C1 amended: a request with a structural field error never causes an
\* identity-provider or store call and signUp returns success=false; the
\* result carries the non-empty field-error map when the auth handle is
\* configured, and only the error "Firebase authentication not configured"
\* (no field-error map) when it is not.
C1_FieldErrorsWhenConfigured ==
  \A p \in Attempts :
    req[p] \in InvalidRequests =>
      /\ noProviderOrStoreCalls(p)
      /\ calls[p].lookup = 0
      /\ returned(p) =>
           /\ ~result[p].success
           /\ authConfigured =>
                /\ "validationErrors" \in result[p].fields
                /\ DOMAIN result[p].validationErrors # {}
                /\ DOMAIN result[p].validationErrors \subseteq FieldNames
           /\ ~authConfigured =>
                /\ result[p].fields = {"error"}
                /\ result[p].error = "Firebase authentication not configured"

\* a request with two field errors was rejected with both of them reported
C1_Witness ==
  \E p \in Attempts :
    /\ returned(p)
    /\ req[p] = "offGrid"
    /\ authConfigured
    /\ DOMAIN result[p].validationErrors = {"skillLevel", "zipCode"}

C3_SucceedsOnThirdInsert ==
  \A p \in Attempts :
    /\ (Len(insertLog[p]) = 2 /\ allTransient(insertLog[p])) =>
         /\ pc[p] \in {"sleeping", "inserting"}
         /\ calls[p].deleteUser = 0
    /\ (Len(insertLog[p]) = 3 /\ allTransient(SubSeq(insertLog[p], 1, 2))
          /\ insertLog[p][3] = Stored) =>
         /\ calls[p].insert = 3
         /\ calls[p].deleteUser = 0
         /\ pc[p] \in {"verifying", "done"}
         /\ returned(p) => result[p].success

\* two connection failures, then the row was stored and signUp succeeded
C3_Witness ==
  \E p \in Attempts :
    /\ returned(p)
    /\ insertLog[p] = <<ConnectionException, ConnectionException, Stored>>
    /\ result[p].success
    /\ calls[p].insert = 3

\* ------------------------------------------------------------------
\* C4
\* ------------------------------------------------------------------
\* C4 as stated: once an attempt has returned, its identity account exists if
\* and only if the users row for its email exists (checked on runs that start
\* with an empty users table).
C4_AccountIffRow ==
  \A p \in Attempts :
    (returned(p) /\ LegacyRow \notin rows) =>
      (accountOf(p) # {} <=> rowsWithEmail(signUpData(p).email) # {})


\* ------------------------------------------------------------------
\* C5, C6: two attempts with the same email
\* ------------------------------------------------------------------
alreadyExists == "An account with this email already exists"

\* the attempts whose request carries the email of attempt p
sameEmail(p) == {q \in Attempts : signUpData(q).email = signUpData(p).email}

\* attempt p ran without a fault of a collaborator: createUser was answered in
\* time and without a provider fault, and no INSERT failed for a reason other
\* than the unique constraint
faultFree(p) ==
  /\ result[p].error # TimedOutError.message
  /\ result[p].error # InternalError.message
  /\ \A i \in DOMAIN insertLog[p] : insertLog[p][i] \in {Stored, UniqueViolationEmail}

\* the attempts of p's email are all valid, have all returned without a fault,
\* and started from an empty users table
raceOver(p) ==
  /\ authConfigured
  /\ LegacyRow \notin rows
  /\ \A q \in sameEmail(p) : req[q] \in ValidRequests /\ returned(q) /\ faultFree(q)

successes(p) == {q \in sameEmail(p) : result[q].success}

RECURSIVE deleteUserCalls(_)
deleteUserCalls(S) ==
  IF S = {} THEN 0
  ELSE LET q == CHOOSE x \in S : TRUE
       IN calls[q].deleteUser + deleteUserCalls(S \ {q})

secondAfterFirst(p, q) ==
  /\ p # q
  /\ calledAfterSuccess[q]
  /\ result[p].success
  /\ signUpData(q).email = signUpData(p).email
  /\ req[q] \in ValidRequests
  /\ returned(q)
  /\ result[q].error # TimedOutError.message
  /\ result[q].error # InternalError.message

firstIntact(p) ==
  /\ accountFor(p) \in accounts
  /\ rowsWithEmail(signUpData(p).email) = {rowOf(userData(p))}

C7_AtMostThreeInserts ==
  \A p \in Attempts :
    /\ calls[p].insert <= 3
    /\ Len(insertLog[p]) <= calls[p].insert
    /\ (allTransient(insertLog[p]) /\ pc[p] \in {"rollback", "done"}
          /\ insertLog[p] # << >>) =>
         /\ calls[p].insert = 3
         /\ Len(insertLog[p]) = 3
         /\ calls[p].deleteUser = 1
    /\ (allTransient(insertLog[p]) /\ Len(insertLog[p]) < 3 /\ insertLog[p] # << >>) =>
         pc[p] \in {"sleeping", "inserting"}

\* three transient failures in a row, then compensation
C7_Witness ==
  \E p \in Attempts :
    /\ insertLog[p] = <<ConnectionException, ConnectionException, ConnectionException>>
    /\ pc[p] = "rollback"
    /\ calls[p].insert = 3

\* ------------------------------------------------------------------
\* C8
\* ------------------------------------------------------------------
\* C8 as stated: when the INSERT fails with transient errors until the retry
\* budget is exhausted, the delays slept are 1 s, 2 s and 4 s in that order
\* (7 s in total) before the attempt compensates.
C8_BackoffDelays ==
  \A p \in Attempts :
    (Len(insertLog[p]) = 3 /\ allTransient(insertLog[p])) =>
      delays[p] = <<1000, 2000, 4000>>

\* ------------------------------------------------------------------
\* C9
\* ------------------------------------------------------------------
\* C9: after a store failure that led to compensation, the result of signUp
\* is success=false with the message of the store error and nothing else,
\* whether the deleteUser call succeeded (the account is gone) or failed (the
\* account is still there).
C9_CompensationFailureNotSurfaced ==
  \A p \in Attempts :
    (returned(p) /\ calls[p].deleteUser > 0) =>
      /\ insertLog[p] # << >>
      /\ result[p] = Failure(handleDatabaseError(Last(insertLog[p])))

\* the deleteUser call failed: the account is still there, the result is the
\* store error's
C9_Witness ==
  \E p \in Attempts :
    /\ returned(p)
    /\ calls[p].deleteUser = 1
    /\ accountOf(p) # {}
    /\ result[p].error = "Required information is missing. Please check your registration data."

\* ------------------------------------------------------------------
\* C10
\* ------------------------------------------------------------------
\* C10: once the INSERT of an attempt has succeeded, no deleteUser call is
\* made and signUp returns success=true with the identity UID as userId; the
\* completeness check can only add the warning.
C10_NoRollbackAfterInsert ==
  \A p \in Attempts :
    (insertLog[p] # << >> /\ Last(insertLog[p]) = Stored) =>
      /\ calls[p].deleteUser = 0
      /\ pc[p] \in {"verifying", "done"}
      /\ accountOf(p) # {}
      /\ returned(p) =>
           /\ result[p].success
           /\ result[p].userId = uidOf(p)
           /\ result[p].error = ""
           /\ {"message", "userId"} \subseteq result[p].fields
           /\ result[p].fields \subseteq {"message", "userId", "warning"}

\* the row was stored, the check found drift, and signUp returned success
\* with the warning
C10_Witness ==
  \E p \in Attempts :
    /\ returned(p)
    /\ insertLog[p] # << >>
    /\ Last(insertLog[p]) = Stored
    /\ result[p].success
    /\ "warning" \in result[p].fields
    /\ result[p].userId = uidOf(p)

\* ------------------------------------------------------------------
\* C11
\* ------------------------------------------------------------------
\* the SELECT of verifyDataCompleteness answered with the row
rereadRow(p) ==
  /\ completenessCheck[p] # NoCheck
  /\ completenessCheck[p].missingFields \notin {{"all"}, {"verification_failed"}}

\* the row stored under the attempt's email holds, in every compared column,
\* the value that was intended to be written
storedEqualsIntended(p) ==
  \E row \in rowsWithEmail(signUpData(p).email) :
    \A field \in completenessFields : row[field] = rowOf(userData(p))[field]

\* C11 as stated: when the row re-read after the insert equals the intended
\* data in every compared field (the city being the empty string on both
\* sides included), signUp returns success=true with no warning.
C11_CompleteDataNoWarning ==
  \A p \in Attempts :
    (returned(p) /\ rereadRow(p) /\ storedEqualsIntended(p))
      => (result[p].success /\ result[p].warning = "" /\ "warning" \notin result[p].fields)

\* ------------------------------------------------------------------
\* C12
\* ------------------------------------------------------------------
\* signUp ended in the identity-failure outcome: createUser was called and
\* signUp returned from the outer catch block without reaching the INSERT
identityFailure(p) ==
  /\ returned(p)
  /\ calls[p].createUser = 1
  /\ calls[p].insert = 0
  /\ ~result[p].success

\* C12 as stated: whenever signUp ends in the identity-failure outcome
\* (provider error or the timeout firing), no identity account created by that
\* attempt exists afterwards and no compensation call is made.
C12_IdentityFailureLeavesNoAccount ==
  \A p \in Attempts :
    identityFailure(p) => (accountOf(p) = {} /\ calls[p].deleteUser = 0)

\* ------------------------------------------------------------------
\* C13
\* ------------------------------------------------------------------
\* result r is a RegistrationResponse: the success flag with message and
\* userId (and possibly the warning), or with a non-empty error (and possibly
\* the field errors)
structured(r) ==
  /\ "exception" \notin r.fields
  /\ r.success =>
       /\ {"message", "userId"} \subseteq r.fields
       /\ r.fields \subseteq {"message", "userId", "warning"}
       /\ r.userId # NoUser
  /\ ~r.success =>
       /\ "error" \in r.fields
       /\ r.fields \subseteq {"error", "validationErrors"}
       /\ r.error # ""

\* C13: for every request and every failure of the validator's lookup, the
\* identity provider, the store or the compensation, what signUp hands back
\* is a structured result; no exception leaves signUp.
C13_AlwaysStructuredResult ==
  \A p \in Attempts : returned(p) => structured(result[p])

\* C13 witness: signUp has returned after a compensation whose deleteUser
\* call failed (the account is still there).
C13_Witness ==
  \E p \in Attempts :
    /\ returned(p)
    /\ calls[p].deleteUser = 1
    /\ accountOf(p) # {}
    /\ structured(result[p])

\* ------------------------------------------------------------------
\* C14
\* ------------------------------------------------------------------
\* the user messages of the code table of handleFirebaseError
fixedUserMessages ==
  {"An account with this email already exists", "Invalid email address",
   "Password is too weak", "User not found", "Incorrect password",
   "This account has been disabled", "Too many failed attempts. Please try again later",
   "No account found with this email address", "Invalid email or password",
   "Authentication failed"}

\* the error texts the identity provider sends
rawProviderTexts == {EmailAlreadyExists.message, InternalError.message}

\* C14 as stated: for every identity-provider error, of a known or an unknown
\* code, the error string returned to the caller is one of the fixed user
\* messages and never the provider's raw error text.
C14_OnlyFixedUserMessages ==
  \A p \in Attempts :
    (identityFailure(p) /\ result[p].error # TimedOutError.message)
      => (result[p].error \in fixedUserMessages /\ result[p].error \notin rawProviderTexts)

\* ------------------------------------------------------------------
\* C15
\* ------------------------------------------------------------------
\* validateRegistrationData has returned its result to signUp
validated(p) == authConfigured /\ pc[p] \notin {"start", "lookup"}

\* 1.0 <= value <= 5.5 and value is a multiple of 0.5 (in hundredths)
onHalfGrid(value) == value >= 100 /\ value <= 550 /\ value % 50 = 0

allChecksPass(p) == \A field \in FieldNames : fieldError(signUpData(p), field) = NoError

\* C16 as stated: for every request, with a 5-digit or a 5+4-digit ZIP, the
\* validator performs the external postal lookup if and only if all
\* structural checks pass; when a field check fails no lookup call is made.
C16_LookupIffChecksPass ==
  \A p \in Attempts :
    validated(p) =>
      /\ allChecksPass(p) => calls[p].lookup = 1
      /\ ~allChecksPass(p) => calls[p].lookup = 0

\* ------------------------------------------------------------------
\* C17
\* ------------------------------------------------------------------
\* the validator's postal lookup was made and failed: no cityInfo came back
lookupFailed(p) ==
  /\ validated(p)
  /\ calls[p].lookup = 1
  /\ validationResult[p].cityInfo = ""

\* the INSERT of attempt p stored its row
stored(p) == insertLog[p] # << >> /\ Last(insertLog[p]) = Stored

\* C17: a failing postal lookup (network error, non-OK response, no places)
\* never makes a structurally valid request invalid: the validator returns
\* isValid=true with no cityInfo, signUp does not return field errors, the row
\* it stores has the empty string as city, and once the row is stored signUp
\* returns success=true.
C17_LookupFailureKeepsValid ==
  \A p \in Attempts :
    lookupFailed(p) =>
      /\ validationResult[p].isValid
      /\ validationResult[p].errors = NoValidationErrors
      /\ stored(p) => \A row \in rowsWithEmail(signUpData(p).email) : row.city = ""
      /\ returned(p) =>
           /\ "validationErrors" \notin result[p].fields
           /\ stored(p) => result[p].success

\* C17 witness: after a failed lookup signUp has returned success and the
\* stored row has the empty city.
C17_Witness ==
  \E p \in Attempts :
    /\ lookupFailed(p)
    /\ returned(p)
    /\ result[p].success
    /\ \E row \in rowsWithEmail(signUpData(p).email) : row.city = ""

\* ------------------------------------------------------------------
\* C18
\* ------------------------------------------------------------------
\* local@domain.tld: one "@", no white space, a non-empty local part, and a
\* dot inside the part after the "@" with text on both sides of it
emailShape(s) ==
  /\ Cardinality({i \in DOMAIN s : s[i] = "@"}) = 1
  /\ \A i \in DOMAIN s : s[i] \notin SpaceChars
  /\ s[1] # "@"
  /\ LET at == CHOOSE i \in DOMAIN s : s[i] = "@"
     IN \E j \in (at + 2)..(Len(s) - 1) : s[j] = "."

\* five digits, or five digits, a hyphen and four digits
zipShape(s) ==
  /\ Len(s) \in {5, 10}
  /\ \A i \in DOMAIN s : IF i = 6 THEN s[i] = "-" ELSE s[i] \in DigitChars

\* the rule of each of the nine fields, taken by itself
ownCheckPasses(formData, field) ==
  CASE field = "fullName" -> Len(Trim(formData.fullName)) >= 2
    [] field = "email" -> formData.email # << >> /\ emailShape(formData.email)
    [] field = "confirmEmail" ->
         formData.confirmEmail # << >> /\ formData.confirmEmail = formData.email
    [] field = "password" ->
         /\ Len(formData.password) >= 6
         /\ Range(formData.password) \cap UpperChars # {}
         /\ Range(formData.password) \cap LowerChars # {}
         /\ Range(formData.password) \cap DigitChars # {}
    [] field = "confirmPassword" ->
         formData.confirmPassword # << >> /\ formData.confirmPassword = formData.password
    [] field = "displayName" -> formData.displayName # << >>
    [] field = "preferredSports" ->
         /\ formData.preferredSports # << >>
         /\ \A sport \in Range(formData.preferredSports) :
              toLowerCase(sport) \in {"tennis", "pickleball"}
    [] field = "skillLevel" -> onHalfGrid(formData.skillLevel)
    [] field = "zipCode" -> formData.zipCode # << >> /\ zipShape(formData.zipCode)

\* C18: validation never stops at the first failure: for every request the
\* error map returned by validateRegistrationData has an entry for exactly
\* those of the nine fields whose own check fails, and isValid is true
\* exactly when the map is empty.
C18_AllFieldErrorsCollected ==
  \A p \in Attempts :
    validated(p) =>
      /\ DOMAIN validationResult[p].errors =
           {field \in FieldNames : ~ownCheckPasses(signUpData(p), field)}
      /\ validationResult[p].isValid <=> (DOMAIN validationResult[p].errors = {})

\* C18 witness: the request in which all nine fields fail has been returned
\* with nine field errors.
C18_Witness ==
  \E p \in Attempts :
    /\ validated(p)
    /\ returned(p)
    /\ req[p] = "allWrong"
    /\ DOMAIN result[p].validationErrors = FieldNames

\* ------------------------------------------------------------------
\* C19
\* ------------------------------------------------------------------
\* the sports a list names, whatever the case of its entries
sportsNamed(preferredSports) == {toLowerCase(sport) : sport \in Range(preferredSports)}

\* the collapse of a set of sports
collapsed(sports) ==
  CASE sports = {"tennis"} -> "tennis"
    [] sports = {"pickleball"} -> "pickleball"
    [] sports = {"tennis", "pickleball"} -> "both"

\* C19 as stated: for every preferredSports list the validator accepts
\* (entries matched case-insensitively), the persisted preferred_sport is
\* 'tennis' when the list names only tennis, 'pickleball' when it names only
\* pickleball, and 'both' when it names both.
C19_PreferredSportCollapse ==
  \A p \in Attempts :
    stored(p) =>
      \A row \in rowsWithEmail(signUpData(p).email) :
        row.preferred_sport = collapsed(sportsNamed(signUpData(p).preferredSports))

\* ------------------------------------------------------------------
\* C20
\* ------------------------------------------------------------------
\* signIn call k has returned success
signedIn(k) == signIn[k].pc = "done" /\ signIn[k].result.success

\* the result of call k carries a token minted by the provider for the
\* account, and no other call's result carries it
freshToken(k) ==
  /\ signIn[k].result.token # NoToken
  /\ signIn[k].result.token.uid = signIn[k].firebaseUser
  /\ signIn[k].result.token.serial \in 1..minted
  /\ \A j \in SignIns \ {k} : signedIn(j) => signIn[j].result.token # signIn[k].result.token

\* the result of call k carries the profile fields of the users row
profileFields(k) ==
  \E row \in rowsWithEmail(signInDataOf(k).email) :
    /\ signIn[k].result.user.email = row.email
    /\ signIn[k].result.user.name = row.name
    /\ signIn[k].result.user.displayName = row.display_name

\* C20 as stated: every successful signIn result carries a freshly minted
\* token together with the user's profile fields and the user's role as
\* stored in the users row.
C20_SuccessCarriesTokenProfileRole ==
  \A k \in SignIns :
    signedIn(k) =>
      /\ freshToken(k)
      /\ profileFields(k)
      /\ "role" \in DOMAIN signIn[k].result.user
      /\ \E row \in rowsWithEmail(signInDataOf(k).email) :
           signIn[k].result.user.role = row.role

\* ------------------------------------------------------------------
\* The role gates
\* ------------------------------------------------------------------
\* the middleware that guards admin routes
adminGates == {"requireAdminRole", "requireAdmin"}

\* the role the gate of request k has decided on: requireAdminRole reads it
\* from the store, requireAdmin takes req.user.role
gateRole(k) ==
  IF requests[k].gate = "requireAdminRole" THEN requests[k].userRole
  ELSE requests[k].user.role

\* request k was authenticated and the gate of its route has decided on a role
gateDecided(k) ==
  /\ requests[k].pc = "done"
  /\ requests[k].next = 1
  /\ gateRole(k) \in DOMAIN roleHierarchy

\* C21: on every admin-gated route, a request of a user whose role is admin or
\* superadmin reaches the route handler, and a request of a player is answered
\* 403: the gate lets through exactly the roles that are at least admin in the
\* hierarchy player < admin < superadmin.
C21_SuperadminIncludesAdmin ==
  \A k \in Requests :
    requests[k].gate \in adminGates /\ gateDecided(k) =>
      /\ requests[k].handled <=> hasRole(gateRole(k), "admin")
      /\ ~requests[k].handled => requests[k].status = 403

\* ------------------------------------------------------------------
\* The classification of store errors
\* ------------------------------------------------------------------
\* SQLSTATE codes of the classes named transient: connection (08xxx),
\* serialization failure (40001), deadlock (40P01), query cancelled (57014),
\* resources (53xxx), shutdown (57P01 to 57P03)
retryableClassCodes ==
  {"08000", "08001", "08003", "08006", "40001", "40P01", "57014", "53200", "53300",
   "57P01", "57P02", "57P03"}

unknownCodes == {"XX000", "42P01"}

\* the i-th INSERT of attempt p failed and the loop went on to another one
retriedAfter(p, i) ==
  \/ i < Len(insertLog[p])
  \/ i = Len(insertLog[p]) /\ pc[p] \in {"sleeping", "inserting"}

\* C22: every failure of an INSERT with a code of the connection,
\* serialization, deadlock, cancel, resource or shutdown classes is classified
\* transient and, unless it was the last attempt, followed by another INSERT;
\* every failure with a constraint violation or an unknown code is classified
\* non-transient and not followed by another INSERT.
C22_TransientClassesRetried ==
  \A p \in Attempts : \A i \in 1..Len(insertLog[p]) :
    /\ insertLog[p][i].code \in retryableClassCodes =>
         /\ isTransientError(insertLog[p][i])
         /\ i < maxRetries => retriedAfter(p, i)
    /\ insertLog[p][i].code \in nonTransientCodes \cup unknownCodes =>
         /\ ~isTransientError(insertLog[p][i])
         /\ ~retriedAfter(p, i)

\* ------------------------------------------------------------------
\* Non-transient errors are not retried
\* ------------------------------------------------------------------
\* C23: once an INSERT of an attempt has failed with a uniqueness, not-null or
\* check violation, that failure is the last answer of the store to the
\* attempt: no further INSERT is issued, no delay is slept after it (the delays
\* are those of the earlier transient failures), and compensation has started.
C23_NonTransientNeverRetried ==
  \A p \in Attempts : \A i \in 1..Len(insertLog[p]) :
    insertLog[p][i].code \in nonTransientCodes =>
      /\ i = Len(insertLog[p])
      /\ calls[p].insert = i
      /\ Len(delays[p]) = i - 1
      /\ calls[p].deleteUser = 1
      /\ pc[p] \in {"rollback", "done"}

\* a not-null violation on the second INSERT, after a transient failure and
\* one delay, has led to compensation
C23_Witness ==
  \E p \in Attempts :
    /\ insertLog[p] = <<ConnectionException, NotNullViolation>>
    /\ delays[p] = <<backoffDelay(1)>>
    /\ calls[p].insert = 2
    /\ returned(p)

\* ------------------------------------------------------------------
\* The user messages of store errors
\* ------------------------------------------------------------------
\* the messages that ask the user to try again
tryAgainMessages ==
  {"Database connection error. Please try again later.",
   "Database connection lost. Please try again later.",
   "Database operation was canceled. Please try again.",
   "Database is temporarily busy. Please try again in a moment.",
   "Database error occurred. Please try again later."}

\* the messages about the data of the request
dataMessages ==
  {"An account with this email already exists",
   "A record with this information already exists",
   "Required information is missing. Please check your registration data.",
   "Skill level must be between 1.0 and 5.5",
   "Preferred sport must be tennis, pickleball, or both",
   "Invalid data provided. Please check your registration information."}

\* the texts the error object carries: code, message, the words of the constraint
textsOf(error) == {error.code, pgMessage(error)} \cup Range(error.constraint)

\* the codes of the transient classes: connection, timeout, deadlock, lock,
\* resources, shutdown
transientClassCodes == retryableClassCodes \cup {"55P03"}

\* the inner catch block of attempt p has mapped the error of its last INSERT
mapped(p) ==
  /\ insertLog[p] # << >>
  /\ Last(insertLog[p]) # Stored
  /\ pc[p] \in {"rollback", "done"}

\* C24: the message that the inner catch block makes of the error of the last
\* INSERT is one of eleven fixed messages: 'An account with this email already
\* exists' for 23505 on the email constraint, 'Required information is
\* missing...' for 23502, the field's message for 23514 on skill_level or
\* preferred_sport, a message asking to try again for every code of the
\* transient classes; it is none of the texts of the error object, and it is
\* the error that signUp returns.
C24_FixedMessagePerStoreError ==
  \A p \in Attempts :
    mapped(p) =>
      /\ dbErrorMessage[p] \in tryAgainMessages \cup dataMessages
      /\ dbErrorMessage[p] \notin textsOf(Last(insertLog[p]))
      /\ Last(insertLog[p]) = UniqueViolationEmail =>
           dbErrorMessage[p] = "An account with this email already exists"
      /\ Last(insertLog[p]) = NotNullViolation =>
           dbErrorMessage[p] =
             "Required information is missing. Please check your registration data."
      /\ Last(insertLog[p]) = CheckViolationSkill =>
           dbErrorMessage[p] = "Skill level must be between 1.0 and 5.5"
      /\ Last(insertLog[p]) = CheckViolationSport =>
           dbErrorMessage[p] = "Preferred sport must be tennis, pickleball, or both"
      /\ Last(insertLog[p]).code \in transientClassCodes =>
           dbErrorMessage[p] \in tryAgainMessages
      /\ Last(insertLog[p]).code \in nonTransientCodes => dbErrorMessage[p] \in dataMessages
      /\ returned(p) => result[p].error = dbErrorMessage[p]

\* three transient failures, the last one a shutdown, were mapped to the
\* generic message, and a unique violation on email is possible in the run
C24_Witness ==
  \E p \in Attempts :
    /\ returned(p)
    /\ Len(insertLog[p]) = 3
    /\ Last(insertLog[p]).code = "57P01"
    /\ result[p].error = "Database error occurred. Please try again later."
    /\ rows # {}

\* ------------------------------------------------------------------
\* The order of the external calls
\* ------------------------------------------------------------------
\* the calls of attempt p so far are in the order validate, createUser,
\* INSERT, then SELECT or deleteUser
callsInOrder(p) ==
  /\ calls[p].createUser <= 1
  /\ calls[p].createUser = 1 => validationResult[p].isValid
  /\ calls[p].insert >= 1 =>
       /\ calls[p].createUser = 1
       /\ ~createPending[p]
       /\ firebaseUser[p] = uidOf(p)
  /\ calls[p].select <= 1
  /\ calls[p].select = 1 =>
       /\ insertLog[p] # << >>
       /\ Last(insertLog[p]) = Stored
       /\ calls[p].deleteUser = 0
  /\ calls[p].deleteUser <= 1
  /\ calls[p].deleteUser = 1 =>
       /\ calls[p].insert = Len(insertLog[p])
       /\ insertLog[p] # << >>
       /\ Last(insertLog[p]) # Stored
       /\ calls[p].select = 0
       /\ firebaseUser[p] = uidOf(p)

\* a step removes no account but the one createUser made for an attempt whose
\* deleteUser call returns in the step
deletesOwnAccountOnly ==
  \A a \in accounts \ accounts' :
    \E p \in Attempts :
      /\ pc[p] = "rollback"
      /\ pc'[p] = "done"
      /\ a = accountFor(p)
      /\ a.uid = firebaseUser[p]

\* C25: in every attempt createUser is called only after the validation found
\* the request valid, the INSERT only after createUser has returned the uid,
\* the SELECT of the verification only after an INSERT stored the row, and
\* deleteUser at most once, only after the attempt's last INSERT has failed and
\* never after the SELECT; the only account a deleteUser call removes is the
\* one that createUser made for the same attempt.
C25_CallOrder == [](\A p \in Attempts : callsInOrder(p)) /\ [][deletesOwnAccountOnly]_vars

\* one attempt has compensated and returned, another has verified and returned
C25_Witness ==
  \E p, q \in Attempts :
    /\ returned(p) /\ calls[p].insert = 3 /\ calls[p].deleteUser = 1 /\ calls[p].select = 0
    /\ returned(q) /\ calls[q].insert = 1 /\ calls[q].deleteUser = 0 /\ calls[q].select = 1
    /\ accountOf(p) = {}
    /\ accountOf(q) # {}

\* ------------------------------------------------------------------
\* Termination
\* ------------------------------------------------------------------
\* the terminal outcomes that the result and the calls of attempt p show
outcomesOf(p) ==
  {o \in {"validation failure", "identity failure", "persistence failure", "success",
          "success with warning"} :
     CASE o = "validation failure" -> "validationErrors" \in result[p].fields
       [] o = "identity failure" ->
            ~result[p].success /\ result[p].fields = {"error"} /\ calls[p].insert = 0
       [] o = "persistence failure" ->
            ~result[p].success /\ calls[p].insert >= 1 /\ Last(insertLog[p]) # Stored
       [] o = "success" ->
            result[p].success /\ calls[p].select = 1 /\ "warning" \notin result[p].fields
       [] o = "success with warning" ->
            result[p].success /\ calls[p].select = 1 /\ "warning" \in result[p].fields}

\* an attempt that returns after its deleteUser call was issued returns from
\* the resumption after that call, and what an attempt has returned stays
returnsAfterCompensation ==
  \A p \in Attempts :
    /\ (pc[p] # "done" /\ pc'[p] = "done" /\ calls'[p].deleteUser >= 1) => pc[p] = "rollback"
    /\ pc[p] = "done" => (pc'[p] = "done" /\ result'[p] = result[p])

\* C26: when every external call returns or fails, every attempt that was
\* called returns; what it returns shows exactly one of the five outcomes; an
\* attempt that is compensating has not returned, and it returns only once
\* its deleteUser call has returned or failed.
C26_EveryAttemptTerminates ==
  /\ \A p \in Attempts : (pc[p] # "start") ~> returned(p)
  /\ [](\A p \in Attempts : returned(p) => Cardinality(outcomesOf(p)) = 1)
  /\ [](\A p \in Attempts : pc[p] = "rollback" => result[p] = NoResult)
  /\ [][returnsAfterCompensation]_vars

\* an attempt has returned a persistence failure after three INSERTs, two
\* delays and the compensation
C26_Witness ==
  \E p \in Attempts :
    /\ returned(p)
    /\ outcomesOf(p) = {"persistence failure"}
    /\ Len(delays[p]) = 2
    /\ calls[p].deleteUser = 1

\* ------------------------------------------------------------------
\* signIn: the conditions of success, and its frame
\* ------------------------------------------------------------------
\* the account of the email of call k has the password of the call
credentialsMatch(k) ==
  \E a \in accountsWithEmail(signInDataOf(k).email) : a.password = signInDataOf(k).password

\* signIn call k has returned
signInReturned(k) == signIn[k].pc = "done"

\* the SELECT of call k answers in this step, the call returns, and there is
\* no row for the email: the call returns 'User profile not found'
missingProfileReported ==
  \A k \in SignIns :
    (/\ signIn[k].pc = "select"
     /\ signIn'[k].pc = "done"
     /\ rowsWithEmail(signInDataOf(k).email) = {}
     /\ signIn'[k].result.error # handleFirebaseError(StoreDown)) =>
      signIn'[k].result = SignInFailure("User profile not found")

\* C27: a signIn call returns success only with a token, for an email that has
\* an identity account whose password is the one given and a users row; a call
\* for an email without a users row returns success=false without a token, no
\* token is minted for it, and when its SELECT answers it returns 'User
\* profile not found'.
C27_SuccessNeedsAccountPasswordRow ==
  /\ [](\A k \in SignIns :
          /\ signedIn(k) =>
               /\ signIn[k].result.token # NoToken
               /\ accountsWithEmail(signInDataOf(k).email) # {}
               /\ credentialsMatch(k)
               /\ rowsWithEmail(signInDataOf(k).email) # {}
          /\ (signInReturned(k) /\ rowsWithEmail(signInDataOf(k).email) = {}) =>
               /\ ~signIn[k].result.success
               /\ signIn[k].result.token = NoToken)
  /\ [](minted = Cardinality({k \in SignIns : signedIn(k)}))
  /\ [][missingProfileReported]_vars

\* a call for an account without row has returned 'User profile not found'
\* and no token was minted
C27_Witness ==
  \E k \in SignIns :
    /\ signInReturned(k)
    /\ accounts = {JaneAccount}
    /\ rows = {}
    /\ signIn[k].result = SignInFailure("User profile not found")
    /\ minted = 0

\* C28: no step of a signIn call changes the identity accounts or the users
\* rows, whatever the input and the outcome, and none issues a deleteUser call.
C28_SignInWritesNothing ==
  [][/\ accounts' = accounts
     /\ rows' = rows
     /\ \A p \in Attempts : calls'[p].deleteUser = calls[p].deleteUser]_vars

\* one call has returned success and another a failure, with the account and
\* the row in place
C28_Witness ==
  \E k, j \in SignIns :
    /\ signedIn(k)
    /\ signInReturned(j) /\ ~signIn[j].result.success
    /\ accounts = {JaneAccount}
    /\ rows = {JaneRow("player")}

\* ------------------------------------------------------------------
\* AuthController.signUp: the status of the answer
\* ------------------------------------------------------------------
\* res.status(...) for what AuthService.signUp returned:
\* 201, or result.validationErrors ? 400 : 500
statusCode(r) ==
  IF r.success THEN 201
  ELSE IF "validationErrors" \in r.fields THEN 400
  ELSE 500

\* C29: the controller answers 201 for a success, a 4xx status for a
\* validation failure and for the failure 'An account with this email already
\* exists', and a 5xx status for no other result than a system error.
C29_DuplicateEmailIsClientError ==
  \A p \in Attempts :
    returned(p) =>
      /\ result[p].success => statusCode(result[p]) = 201
      /\ "validationErrors" \in result[p].fields => statusCode(result[p]) \in 400..499
      /\ result[p].error = alreadyExists => statusCode(result[p]) \in 400..499
      /\ statusCode(result[p]) \in 500..599 =>
           /\ ~result[p].success
           /\ "validationErrors" \notin result[p].fields
           /\ result[p].error # alreadyExists

\* ------------------------------------------------------------------
\* authenticateToken
\* ------------------------------------------------------------------
\* request k carries an authorization header that starts with 'Bearer '
bearerHeader(k) ==
  /\ requests[k].authorization # ""
  /\ AuthorizationNamed(requests[k].authorization).present
  /\ startsWith(AuthorizationNamed(requests[k].authorization).value, Bearer)

\* authenticateToken has answered request k or passed it on
authenticated(k) == requests[k].pc \in {"adminRole", "done"}

\* C30: authenticateToken calls next() at most once; it has called it exactly
\* when the request carries a 'Bearer ' header and the provider has verified
\* its token; a request it has not passed on is answered 401 and reaches no
\* handler. The role attached to a passed request is admin or superadmin only
\* if the users row of the email has that role; without a row, or when the
\* lookup fails, it is player.
C30_NextIffBearerVerified ==
  \A k \in Requests :
    /\ requests[k].next <= 1
    /\ requests[k].next = 1 => (bearerHeader(k) /\ requests[k].verified)
    /\ (authenticated(k) /\ bearerHeader(k) /\ requests[k].verified) => requests[k].next = 1
    /\ (authenticated(k) /\ requests[k].next = 0) =>
         /\ requests[k].status = 401
         /\ ~requests[k].handled
         /\ requests[k].user = NoReqUser
    /\ requests[k].handled => requests[k].next = 1
    /\ requests[k].next = 1 =>
         /\ requests[k].user.uid = decodedUser.uid
         /\ requests[k].user.role \in {"player"} \cup rolesStored(requests[k].user.email)
         /\ rowsWithEmail(requests[k].user.email) = {} => requests[k].user.role = "player"

\* a verified request of a user without row was passed on as a player, and a
\* request that carries the same token after 'Basic ' was answered 401
C30_Witness ==
  \E k, j \in Requests :
    /\ requests[k].authorization = "bearerJane"
    /\ requests[k].next = 1
    /\ requests[k].handled
    /\ requests[k].user.role = "player"
    /\ rows = {}
    /\ requests[j].authorization = "basic"
    /\ requests[j].status = 401
    /\ requests[j].next = 0

====
